---------------------------- MODULE Spec2Model ----------------------------
(***************************************************************************)
(* Model of the Chat agent of cf_ai_referee (src/src/server.ts) and of its *)
(* earlier revision with duplicate detection (src/unnamed/part_001).       *)
(*                                                                         *)
(* A text is a sequence of characters, so that trimming and concatenation  *)
(* are computed rather than assumed.  A character is a one-character       *)
(* string, or, where a string cannot hold it, the name of its code point   *)
(* ("U+00A0").  A timestamp is a                                           *)
(* positive integer read from a logical clock; 0 stands for a missing      *)
(* (falsy) timestamp.                                                      *)
(***************************************************************************)
EXTENDS Integers, Sequences, FiniteSets, TLC

VARIABLES
    storage,    \* this.ctx.storage: a function from keys to stored values
    clock,      \* the value the next `new Date()` returns
    pc,         \* where each onChatMessage invocation stands
    response,   \* what each onChatMessage invocation returned
    turn,       \* the local variables of each onChatMessage invocation
    probe       \* argument and result of a pure function under test

vars == <<storage, clock, pc, response, turn, probe>>

-----------------------------------------------------------------------------
(* Program constants *)

MAX_MESSAGES_IN_CONTEXT == 15

MAX_STORED_MESSAGES == 100

HistoryKey == "conversation_history"

ClearSentinel ==
    <<"(", "c", "l", "e", "a", "r", " ", "r", "e", "q", "u", "e", "s", "t", "e", "d", ")">>

(* Bounds of the model *)

\* number of onChatMessage invocations in a behaviour
MaxTurns == 2

\* largest inbound batch (this.messages) of a request
MaxBatch == 2

\* how far beyond the storage cap the logs given to the pure functions go
MaxOver == 3

\* largest batch given to the selection functions on their own
MaxProbeBatch == 3

\* largest number of parts of a message given to extractContent on its own
MaxParts == 3

-----------------------------------------------------------------------------
(* Texts *)

\* the white space and line terminators that String.prototype.trim removes
WhiteSpace ==
    {"\t", "\n", "U+000B", "\f", "\r", " ", "U+00A0", "U+1680",
     "U+2000", "U+2001", "U+2002", "U+2003", "U+2004", "U+2005", "U+2006", "U+2007",
     "U+2008", "U+2009", "U+200A", "U+2028", "U+2029", "U+202F", "U+205F", "U+3000",
     "U+FEFF"}

RECURSIVE TrimStart(_)
TrimStart(s) ==
    IF s # <<>> /\ Head(s) \in WhiteSpace THEN TrimStart(Tail(s)) ELSE s

RECURSIVE TrimEnd(_)
TrimEnd(s) ==
    IF s # <<>> /\ s[Len(s)] \in WhiteSpace
    THEN TrimEnd(SubSeq(s, 1, Len(s) - 1))
    ELSE s

\* String.prototype.trim
Trim(s) == TrimEnd(TrimStart(s))

\* Array.prototype.slice(-n) for n > 0
SliceLast(s, n) ==
    IF Len(s) <= n THEN s ELSE SubSeq(s, Len(s) - n + 1, Len(s))

-----------------------------------------------------------------------------
(* The pure helpers of class Chat *)

\* slice(0, n) in place of slice(-n): the oldest messages are kept
getRecentMessages_KeepOldest(msgs) ==
    IF Len(msgs) <= MAX_MESSAGES_IN_CONTEXT
    THEN msgs
    ELSE SubSeq(msgs, 1, MAX_MESSAGES_IN_CONTEXT)

getRecentMessages(msgs) ==
    IF Len(msgs) <= MAX_MESSAGES_IN_CONTEXT
    THEN msgs
    ELSE SliceLast(msgs, MAX_MESSAGES_IN_CONTEXT)

\* the trim forgotten: the history is returned as it is
trimStoredHistory_NoTrim(msgs) == msgs

\* slice(0, n) in place of slice(-n): the oldest messages are kept
trimStoredHistory_KeepOldest(msgs) ==
    IF Len(msgs) <= MAX_STORED_MESSAGES
    THEN msgs
    ELSE SubSeq(msgs, 1, MAX_STORED_MESSAGES)

\* slice(-(n - 1)): one entry too many is dropped
trimStoredHistory_OffByOne(msgs) ==
    IF Len(msgs) <= MAX_STORED_MESSAGES
    THEN msgs
    ELSE SliceLast(msgs, MAX_STORED_MESSAGES - 1)

\* the context cap used where the storage cap is meant
trimStoredHistory_ContextCap(msgs) ==
    IF Len(msgs) <= MAX_STORED_MESSAGES
    THEN msgs
    ELSE SliceLast(msgs, MAX_MESSAGES_IN_CONTEXT)

trimStoredHistory(msgs) ==
    IF Len(msgs) <= MAX_STORED_MESSAGES
    THEN msgs
    ELSE SliceLast(msgs, MAX_STORED_MESSAGES)

\* the loop over message.parts: text parts with a truthy text are appended
RECURSIVE ConcatTextParts(_)
ConcatTextParts(parts) ==
    IF parts = <<>> THEN <<>>
    ELSE LET part == Head(parts)
         IN  (IF part.type = "text" /\ "text" \in DOMAIN part /\ part.text # <<>>
              THEN part.text
              ELSE <<>>)
                 \o ConcatTextParts(Tail(parts))

\* the text of every part appended, whatever its type
RECURSIVE ConcatAllParts(_)
ConcatAllParts(parts) ==
    IF parts = <<>> THEN <<>>
    ELSE LET part == Head(parts)
         IN  (IF "text" \in DOMAIN part THEN part.text ELSE <<>>)
                 \o ConcatAllParts(Tail(parts))

extractContent_AllParts(message) ==
    Trim(IF "parts" \in DOMAIN message THEN ConcatAllParts(message.parts) ELSE <<>>)

extractContent(message) ==
    Trim(IF "parts" \in DOMAIN message THEN ConcatTextParts(message.parts) ELSE <<>>)

Null == [null |-> TRUE]

\* the backwards scan of getLatestMessage, from index i down to 1
RECURSIVE ScanLatest(_, _)
ScanLatest(incoming, i) ==
    IF i < 1 THEN Null
    ELSE IF Len(extractContent(incoming[i])) > 0 THEN incoming[i]
    ELSE ScanLatest(incoming, i - 1)

\* the scan run forwards: the oldest message with text is returned
getLatestMessage_Oldest(incoming) ==
    LET RECURSIVE scan(_)
        scan(i) ==
            IF i > Len(incoming) THEN Null
            ELSE IF Len(extractContent(incoming[i])) > 0 THEN incoming[i]
            ELSE scan(i + 1)
    IN  scan(1)

\* the newest message returned when no message has text, in place of null
getLatestMessage_FallbackLast(incoming) ==
    LET found == ScanLatest(incoming, Len(incoming))
    IN  IF found = Null /\ incoming # <<>> THEN incoming[Len(incoming)] ELSE found

\* the scan restricted to user messages, as in the earlier revision
getLatestMessage_UserOnly(incoming) ==
    LET RECURSIVE scan(_)
        scan(i) ==
            IF i < 1 THEN Null
            ELSE IF incoming[i].role = "user" /\ Len(extractContent(incoming[i])) > 0
                 THEN incoming[i]
            ELSE scan(i - 1)
    IN  scan(Len(incoming))

getLatestMessage(incoming) == ScanLatest(incoming, Len(incoming))

\* the scan of getLatestUserMessage (earlier revision): only user messages count
RECURSIVE ScanLatestUser(_, _)
ScanLatestUser(incoming, i) ==
    IF i < 1 THEN Null
    ELSE IF incoming[i].role = "user" /\ Len(extractContent(incoming[i])) > 0
         THEN incoming[i]
    ELSE ScanLatestUser(incoming, i - 1)

getLatestUserMessage(incoming) == ScanLatestUser(incoming, Len(incoming))

\* message.metadata?.createdAt, 0 when missing
MetadataCreatedAt(message) ==
    IF "metadata" \in DOMAIN message /\ "createdAt" \in DOMAIN message.metadata
    THEN message.metadata.createdAt
    ELSE 0

\* timestamp || message.metadata?.createdAt || new Date().toISOString()
toStoredMessage(message, timestamp, date) ==
    LET content == extractContent(message)
    IN  IF content = <<>> THEN Null
        ELSE [role     |-> message.role,
              content  |-> content,
              metadata |-> [createdAt |->
                  IF timestamp # 0 THEN timestamp
                  ELSE IF MetadataCreatedAt(message) # 0 THEN MetadataCreatedAt(message)
                  ELSE date]]

toUIMessage(message) ==
    [role     |-> message.role,
     parts    |-> <<[type |-> "text", text |-> message.content]>>,
     metadata |-> message.metadata]

\* the spread of latestMessage forgotten: only the metadata remains
WithTimestamp_DropParts(message, now) ==
    [role |-> message.role, metadata |-> [createdAt |-> now]]

\* { ...latestMessage, metadata: { ...latestMessage.metadata, createdAt: now } }
WithTimestamp(message, now) ==
    LET old == IF "metadata" \in DOMAIN message THEN message.metadata ELSE <<>>
        new == [g \in DOMAIN old \cup {"createdAt"} |->
                   IF g = "createdAt" THEN now ELSE old[g]]
    IN  [f \in DOMAIN message \cup {"metadata"} |->
            IF f = "metadata" THEN new ELSE message[f]]

\* the comparison forgotten: nothing is a duplicate
isDuplicate_Never(history, text) == FALSE

\* only the most recent stored user message is compared
isDuplicate_LastUserOnly(history, text) ==
    \E i \in 1..Len(history) :
        /\ history[i].role = "user" /\ history[i].content = text
        /\ \A j \in (i + 1)..Len(history) : history[j].role # "user"

\* storedHistory.some(msg => msg.role === "user" && msg.content === text)
isDuplicate(history, text) ==
    \E i \in 1..Len(history) : history[i].role = "user" /\ history[i].content = text

\* (await this.ctx.storage.get("conversation_history")) || []
LoadHistory ==
    IF HistoryKey \in DOMAIN storage THEN storage[HistoryKey] ELSE <<>>

-----------------------------------------------------------------------------
(* Responses of onChatMessage *)

NoResponse == [kind |-> "none"]

TextResponse(body) == [kind |-> "text", status |-> 200, body |-> body]

ClearResponse(count) ==
    [kind |-> "json", status |-> 200, type |-> "clear", success |-> TRUE,
     messagesDeleted |-> count]

StreamResponse == [kind |-> "stream", status |-> 200]

-----------------------------------------------------------------------------
(* Inputs *)

Digit(k) == <<"0", "1", "2", "3", "4", "5", "6", "7", "8", "9">>[k + 1]

\* the i-th entry of a log written by earlier turns
HistoryEntry(i) ==
    [role     |-> IF i % 2 = 1 THEN "user" ELSE "assistant",
     content  |-> <<"h", Digit(i \div 100), Digit((i \div 10) % 10), Digit(i % 10)>>,
     metadata |-> [createdAt |-> i]]

HistoryLog(n) == [i \in 1..n |-> HistoryEntry(i)]

TextPart(s) == [type |-> "text", text |-> s]

\* inbound UI messages: a file part and a reasoning part are not text parts,
\* a text of white space only is no text, and a message may come without parts
InboundMessages ==
    { [role |-> "user",      parts |-> <<[type |-> "file"], TextPart(<<" ", "X">>)>>],
      [role |-> "user",      parts |-> <<TextPart(ClearSentinel)>>],
      [role |-> "user",      parts |-> <<TextPart(<<" ", "\f", "U+00A0">>),
                                         [type |-> "reasoning", text |-> <<"z">>]>>],
      [role |-> "system",    parts |-> <<TextPart(<<" ", "(", "c", "l", "e", "a", "r">>),
                                         TextPart(<<" ", "r", "e", "q", "u", "e", "s", "t",
                                                    "e", "d", ")", "\n">>)>>],
      [role |-> "system",    parts |-> <<TextPart(<<"h", "i">>)>>],
      [role |-> "assistant", parts |-> <<TextPart(<<"A">>)>>,
                             metadata |-> [createdAt |-> 1]],
      [role |-> "assistant"] }

RECURSIVE SeqsUpTo(_, _)
SeqsUpTo(S, n) ==
    IF n = 0 THEN {<<>>}
    ELSE LET shorter == SeqsUpTo(S, n - 1)
         IN  shorter \cup {Append(s, x) : s \in {q \in shorter : Len(q) = n - 1}, x \in S}

InboundBatches == SeqsUpTo(InboundMessages, MaxBatch)

\* the earlier revision is also sent the text of the first entry of the log
PrevInboundMessages ==
    InboundMessages \cup {[role |-> "user", parts |-> <<TextPart(HistoryEntry(1).content)>>]}

PrevInboundBatches == SeqsUpTo(PrevInboundMessages, MaxBatch)

\* event.text of the model's completion
ModelTexts == {<<>>, <<"R">>}

-----------------------------------------------------------------------------
(* State *)

TurnIds == 1..MaxTurns

IdleTurn ==
    [storedHistory            |-> <<>>,
     latestMessage            |-> Null,
     now                      |-> 0,
     userMessageWithTimestamp |-> Null,
     contextMessages          |-> <<>>,
     assistantMessage         |-> <<>>,
     trimmedHistory           |-> <<>>]

IdleProbe == [fn |-> "none", arg |-> <<>>, res |-> <<>>]

\* lengths of the log found in storage when the agent starts
InitLens == {5, MAX_MESSAGES_IN_CONTEXT, MAX_MESSAGES_IN_CONTEXT + 1,
             MAX_STORED_MESSAGES - 1, MAX_STORED_MESSAGES}

InitWith(lens, withAbsent) ==
    /\ \/ /\ withAbsent
          /\ storage = << >>
          /\ clock = 1
       \/ \E n \in lens :
             /\ storage = (HistoryKey :> HistoryLog(n))
             /\ clock = n + 1
    /\ pc = [t \in TurnIds |-> "idle"]
    /\ response = [t \in TurnIds |-> NoResponse]
    /\ turn = [t \in TurnIds |-> IdleTurn]
    /\ probe = IdleProbe

Init == InitWith(InitLens, TRUE)

\* requests are numbered in order of arrival
CanStart(t) ==
    /\ pc[t] = "idle"
    /\ \A s \in TurnIds : s < t => pc[s] # "idle"

-----------------------------------------------------------------------------
(* onChatMessage of src/src/server.ts.  An invocation suspends at each      *)
(* await, and other invocations and callbacks may run meanwhile: on the    *)
(* get of the log, on the delete of a clear, on the model's stream.        *)

\* const storedHistory = (await this.ctx.storage.get(...)) || []
onChatMessage_Load(t) ==
    /\ CanStart(t)
    /\ pc' = [pc EXCEPT ![t] = "loaded"]
    /\ turn' = [turn EXCEPT ![t] = [@ EXCEPT !.storedHistory = LoadHistory]]
    /\ UNCHANGED <<storage, clock, response, probe>>

onChatMessage_NoValid(t, latestMessage) ==
    /\ pc[t] = "loaded"
    /\ latestMessage = Null
    /\ pc' = [pc EXCEPT ![t] = "done"]
    /\ response' = [response EXCEPT ![t] = TextResponse("No valid message")]
    /\ UNCHANGED <<storage, clock, turn, probe>>

\* the clear branch without its role test
onChatMessage_Clear_AnyRole(t, latestMessage) ==
    /\ pc[t] = "loaded"
    /\ latestMessage # Null
    /\ extractContent(latestMessage) = ClearSentinel
    /\ storage' = [k \in DOMAIN storage \ {HistoryKey} |-> storage[k]]
    /\ pc' = [pc EXCEPT ![t] = "deleted"]
    /\ turn' = [turn EXCEPT ![t] = [@ EXCEPT !.latestMessage = latestMessage]]
    /\ UNCHANGED <<clock, response, probe>>

onChatMessage_Clear(t, latestMessage) ==
    /\ pc[t] = "loaded"
    /\ latestMessage # Null
    /\ latestMessage.role = "system"
    /\ extractContent(latestMessage) = ClearSentinel
    /\ storage' = [k \in DOMAIN storage \ {HistoryKey} |-> storage[k]]
    /\ pc' = [pc EXCEPT ![t] = "deleted"]
    /\ turn' = [turn EXCEPT ![t] = [@ EXCEPT !.latestMessage = latestMessage]]
    /\ UNCHANGED <<clock, response, probe>>

\* the clear branch after its delete: the acknowledgment counts the log loaded
onChatMessage_ClearAck(t) ==
    /\ pc[t] = "deleted"
    /\ pc' = [pc EXCEPT ![t] = "done"]
    /\ response' = [response EXCEPT ![t] = ClearResponse(Len(turn[t].storedHistory))]
    /\ UNCHANGED <<storage, clock, turn, probe>>

onChatMessage_NonUser(t, latestMessage) ==
    /\ pc[t] = "loaded"
    /\ latestMessage # Null
    /\ ~(latestMessage.role = "system" /\ extractContent(latestMessage) = ClearSentinel)
    /\ latestMessage.role # "user"
    /\ pc' = [pc EXCEPT ![t] = "done"]
    /\ response' = [response EXCEPT ![t] = TextResponse("Non-user message ignored")]
    /\ turn' = [turn EXCEPT ![t] = [@ EXCEPT !.latestMessage = latestMessage]]
    /\ UNCHANGED <<storage, clock, probe>>

\* the whole history sent, the window forgotten
BuildContext_WholeHistory(storedHistory, userMessageWithTimestamp) ==
    [i \in 1..Len(storedHistory) |-> toUIMessage(storedHistory[i])]
        \o <<userMessageWithTimestamp>>

\* the context of the first turn kept in memory and sent again
BuildContext_InMemory(storedHistory, userMessageWithTimestamp) ==
    LET recentHistory == getRecentMessages(storedHistory)
        recentHistoryAsUI == [i \in 1..Len(recentHistory) |-> toUIMessage(recentHistory[i])]
    IN  turn[1].contextMessages \o recentHistoryAsUI \o <<userMessageWithTimestamp>>

\* the context handed to streamText: recent history as UI messages, then the new message
BuildContext(storedHistory, userMessageWithTimestamp) ==
    LET recentHistory == getRecentMessages(storedHistory)
        recentHistoryAsUI == [i \in 1..Len(recentHistory) |-> toUIMessage(recentHistory[i])]
    IN  recentHistoryAsUI \o <<userMessageWithTimestamp>>

\* the user message put in the store before the model is invoked
onChatMessage_User_EagerWrite(t, latestMessage) ==
    LET storedHistory == turn[t].storedHistory
        now == clock
        userMessageWithTimestamp == WithTimestamp(latestMessage, now)
    IN  /\ pc[t] = "loaded"
        /\ latestMessage # Null
        /\ ~(latestMessage.role = "system" /\ extractContent(latestMessage) = ClearSentinel)
        /\ latestMessage.role = "user"
        /\ clock' = clock + 1
        /\ pc' = [pc EXCEPT ![t] = "streaming"]
        /\ response' = [response EXCEPT ![t] = StreamResponse]
        /\ turn' = [turn EXCEPT ![t] = [@ EXCEPT !.latestMessage = latestMessage,
                                                 !.now = now,
                                                 !.userMessageWithTimestamp = userMessageWithTimestamp,
                                                 !.contextMessages =
                             BuildContext(storedHistory, userMessageWithTimestamp)]]
        /\ storage' = (HistoryKey :> trimStoredHistory(
                           Append(storedHistory,
                                  toStoredMessage(userMessageWithTimestamp, now, now))))
        /\ UNCHANGED probe

onChatMessage_User(t, latestMessage) ==
    LET storedHistory == turn[t].storedHistory
        now == clock
        userMessageWithTimestamp == WithTimestamp(latestMessage, now)
    IN  /\ pc[t] = "loaded"
        /\ latestMessage # Null
        /\ ~(latestMessage.role = "system" /\ extractContent(latestMessage) = ClearSentinel)
        /\ latestMessage.role = "user"
        /\ clock' = clock + 1
        /\ pc' = [pc EXCEPT ![t] = "streaming"]
        /\ response' = [response EXCEPT ![t] = StreamResponse]
        /\ turn' = [turn EXCEPT ![t] = [@ EXCEPT !.latestMessage = latestMessage,
                                                 !.now = now,
                                                 !.userMessageWithTimestamp = userMessageWithTimestamp,
                                                 !.contextMessages =
                             BuildContext(storedHistory, userMessageWithTimestamp)]]
        /\ UNCHANGED <<storage, probe>>

\* the new entries appended in the wrong order
UpdatedHistory_ReplyFirst(storedHistory, userStoredMessage, assistantMessageObj) ==
    trimStoredHistory(storedHistory \o <<assistantMessageObj, userStoredMessage>>)

\* the user message forgotten: only the reply is appended
UpdatedHistory_ReplyOnly(storedHistory, userStoredMessage, assistantMessageObj) ==
    trimStoredHistory(storedHistory \o <<assistantMessageObj>>)

\* the history onFinish puts: old + user message + assistant response, trimmed
UpdatedHistory(storedHistory, userStoredMessage, assistantMessageObj) ==
    trimStoredHistory(storedHistory \o <<userStoredMessage, assistantMessageObj>>)

\* the onFinish callback of streamText
onFinish(t, text) ==
    LET userStoredMessage ==
            toStoredMessage(turn[t].userMessageWithTimestamp, turn[t].now, clock)
        assistantMessageObj ==
            [role |-> "assistant", content |-> text, metadata |-> [createdAt |-> clock]]
        trimmedHistory ==
            UpdatedHistory(turn[t].storedHistory, userStoredMessage, assistantMessageObj)
    IN  /\ pc[t] = "streaming"
        /\ pc' = [pc EXCEPT ![t] = "done"]
        /\ IF userStoredMessage = Null
           THEN /\ turn' = [turn EXCEPT ![t] = [@ EXCEPT !.assistantMessage = text]]
                /\ UNCHANGED <<storage, clock>>
           ELSE /\ turn' = [turn EXCEPT ![t] = [@ EXCEPT !.assistantMessage = text,
                                                         !.trimmedHistory = trimmedHistory]]
                /\ storage' = [k \in DOMAIN storage \cup {HistoryKey} |->
                       IF k = HistoryKey THEN trimmedHistory ELSE storage[k]]
                /\ clock' = clock + 1
        /\ UNCHANGED <<response, probe>>

\* the model invocation fails: onFinish is never called
streamFailure(t) ==
    /\ pc[t] = "streaming"
    /\ pc' = [pc EXCEPT ![t] = "failed"]
    /\ UNCHANGED <<storage, clock, response, turn, probe>>

\* onChatMessage from the selection of latestMessage on, the log loaded: one of
\* its four branches
AfterSelection(t, latestMessage) ==
    \/ onChatMessage_NoValid(t, latestMessage)
    \/ onChatMessage_Clear(t, latestMessage)
    \/ onChatMessage_NonUser(t, latestMessage)
    \/ onChatMessage_User(t, latestMessage)

\* onChatMessage resumed after its get, this.messages being batch
onChatMessage(t, batch) == AfterSelection(t, getLatestMessage(batch))

\* what getLatestMessage returns over the inbound batches
LatestMessages == {getLatestMessage(batch) : batch \in InboundBatches}

\* \E batch \in InboundBatches : onChatMessage(t, batch), each selection taken once
Next ==
    \E t \in TurnIds :
        \/ onChatMessage_Load(t)
        \/ \E latestMessage \in LatestMessages : AfterSelection(t, latestMessage)
        \/ onChatMessage_ClearAck(t)
        \/ \E text \in ModelTexts : onFinish(t, text)
        \/ streamFailure(t)

Spec == Init /\ [][Next]_vars

\* the same agent over a store that holds a log longer than the cap
InitOver ==
    InitWith({MAX_STORED_MESSAGES - 1, MAX_STORED_MESSAGES, MAX_STORED_MESSAGES + 1,
              MAX_STORED_MESSAGES + 20}, FALSE)

SpecOver == InitOver /\ [][Next]_vars

-----------------------------------------------------------------------------
(* onChatMessage of the earlier revision (src/unnamed/part_001) *)

\* const storedHistory = (await this.ctx.storage.get(...)) || []
prevOnChatMessage_Load(t) ==
    /\ CanStart(t)
    /\ pc' = [pc EXCEPT ![t] = "loaded"]
    /\ turn' = [turn EXCEPT ![t] = [@ EXCEPT !.storedHistory = LoadHistory]]
    /\ UNCHANGED <<storage, clock, response, probe>>

prevOnChatMessage_NoValid(t, latestUserMessage) ==
    /\ pc[t] = "loaded"
    /\ latestUserMessage = Null
    /\ pc' = [pc EXCEPT ![t] = "done"]
    /\ response' = [response EXCEPT ![t] = TextResponse("No valid message")]
    /\ UNCHANGED <<storage, clock, turn, probe>>

prevOnChatMessage_Duplicate(t, latestUserMessage) ==
    LET storedHistory == turn[t].storedHistory
    IN  /\ pc[t] = "loaded"
        /\ latestUserMessage # Null
        /\ isDuplicate(storedHistory, extractContent(latestUserMessage))
        /\ pc' = [pc EXCEPT ![t] = "done"]
        /\ response' = [response EXCEPT ![t] = TextResponse("Duplicate message")]
        /\ turn' = [turn EXCEPT ![t] = [@ EXCEPT !.latestMessage = latestUserMessage]]
        /\ UNCHANGED <<storage, clock, probe>>

prevOnChatMessage_User(t, latestUserMessage) ==
    LET storedHistory == turn[t].storedHistory
        now == clock
        userMessageWithTimestamp == WithTimestamp(latestUserMessage, now)
    IN  /\ pc[t] = "loaded"
        /\ latestUserMessage # Null
        /\ ~isDuplicate(storedHistory, extractContent(latestUserMessage))
        /\ clock' = clock + 1
        /\ pc' = [pc EXCEPT ![t] = "streaming"]
        /\ response' = [response EXCEPT ![t] = StreamResponse]
        /\ turn' = [turn EXCEPT ![t] = [@ EXCEPT !.latestMessage = latestUserMessage,
                                                 !.now = now,
                                                 !.userMessageWithTimestamp = userMessageWithTimestamp,
                                                 !.contextMessages =
                             BuildContext(storedHistory, userMessageWithTimestamp)]]
        /\ UNCHANGED <<storage, probe>>

prevAfterSelection(t, latestUserMessage) ==
    \/ prevOnChatMessage_NoValid(t, latestUserMessage)
    \/ prevOnChatMessage_Duplicate(t, latestUserMessage)
    \/ prevOnChatMessage_User(t, latestUserMessage)

\* onChatMessage of the earlier revision resumed after its get, this.messages being batch
prevOnChatMessage(t, batch) == prevAfterSelection(t, getLatestUserMessage(batch))

\* what getLatestUserMessage returns over the inbound batches
LatestUserMessages == {getLatestUserMessage(batch) : batch \in PrevInboundBatches}

NextPrev ==
    \E t \in TurnIds :
        \/ prevOnChatMessage_Load(t)
        \/ \E latestUserMessage \in LatestUserMessages :
              prevAfterSelection(t, latestUserMessage)
        \/ \E text \in ModelTexts : onFinish(t, text)
        \/ streamFailure(t)

SpecPrev == Init /\ [][NextPrev]_vars

-----------------------------------------------------------------------------
(* Serialized turns: a request is delivered only when no turn is in flight *)
(* (a failed model invocation ends its turn)                               *)

NoTurnInFlight == \A s \in TurnIds : pc[s] \in {"idle", "done", "failed"}

\* logs that serialized turns leave when they start from an empty store
InitPairs == InitWith({2, MAX_STORED_MESSAGES - 2, MAX_STORED_MESSAGES}, TRUE)

NextSerial ==
    \E t \in TurnIds :
        \/ /\ NoTurnInFlight
           /\ onChatMessage_Load(t)
        \/ \E latestMessage \in LatestMessages : AfterSelection(t, latestMessage)
        \/ onChatMessage_ClearAck(t)
        \/ \E text \in ModelTexts : onFinish(t, text)
        \/ streamFailure(t)

SpecSerial == InitPairs /\ [][NextSerial]_vars

NextPrevSerial ==
    \E t \in TurnIds :
        \/ /\ NoTurnInFlight
           /\ prevOnChatMessage_Load(t)
        \/ \E latestUserMessage \in LatestUserMessages :
               prevAfterSelection(t, latestUserMessage)
        \/ \E text \in ModelTexts : onFinish(t, text)
        \/ streamFailure(t)

SpecPrevSerial == InitPairs /\ [][NextPrevSerial]_vars

-----------------------------------------------------------------------------
(* The windowing and trimming functions applied to logs of every length *)

ProbeLens == 0..(MAX_STORED_MESSAGES + MaxOver)

InitPure ==
    /\ storage = << >>
    /\ clock = 1
    /\ pc = [t \in TurnIds |-> "idle"]
    /\ response = [t \in TurnIds |-> NoResponse]
    /\ turn = [t \in TurnIds |-> IdleTurn]
    /\ \E n \in ProbeLens : probe = [fn |-> "none", arg |-> HistoryLog(n), res |-> <<>>]

Apply_getRecentMessages ==
    /\ probe.fn = "none"
    /\ probe' = [probe EXCEPT !.fn = "getRecentMessages",
                              !.res = getRecentMessages(probe.arg)]
    /\ UNCHANGED <<storage, clock, pc, response, turn>>

Apply_trimStoredHistory ==
    /\ probe.fn = "none"
    /\ probe' = [probe EXCEPT !.fn = "trimStoredHistory",
                              !.res = trimStoredHistory(probe.arg)]
    /\ UNCHANGED <<storage, clock, pc, response, turn>>

NextPure == Apply_getRecentMessages \/ Apply_trimStoredHistory

SpecPure == InitPure /\ [][NextPure]_vars

-----------------------------------------------------------------------------
(* The selection functions applied to inbound batches *)

EmptyUserMessage == [role |-> "user", parts |-> <<TextPart(<<>>)>>]

RealQuestion ==
    [role |-> "user",
     parts |-> <<TextPart(<<"r", "e", "a", "l", " ", "q", "u", "e", "s", "t", "i", "o", "n">>)>>]

ProbeMessages == InboundMessages \cup {EmptyUserMessage, RealQuestion}

ProbeBatches == SeqsUpTo(ProbeMessages, MaxProbeBatch)

InitSelect ==
    /\ storage = << >>
    /\ clock = 1
    /\ pc = [t \in TurnIds |-> "idle"]
    /\ response = [t \in TurnIds |-> NoResponse]
    /\ turn = [t \in TurnIds |-> IdleTurn]
    /\ \E batch \in ProbeBatches : probe = [fn |-> "none", arg |-> batch, res |-> <<>>]

Apply_getLatestMessage ==
    /\ probe.fn = "none"
    /\ probe' = [probe EXCEPT !.fn = "getLatestMessage",
                              !.res = getLatestMessage(probe.arg)]
    /\ UNCHANGED <<storage, clock, pc, response, turn>>

Apply_getLatestUserMessage ==
    /\ probe.fn = "none"
    /\ probe' = [probe EXCEPT !.fn = "getLatestUserMessage",
                              !.res = getLatestUserMessage(probe.arg)]
    /\ UNCHANGED <<storage, clock, pc, response, turn>>

NextSelect == Apply_getLatestMessage \/ Apply_getLatestUserMessage

SpecSelect == InitSelect /\ [][NextSelect]_vars

-----------------------------------------------------------------------------
(* extractContent applied to messages of every composition *)

\* text parts (one empty, one blank, one of a form feed and a no-break space, one
\* of a zero-width space, which trim keeps, one without its text), and parts of
\* other types
PartKinds ==
    { TextPart(<<"a">>), TextPart(<<" ", "b">>), TextPart(<<>>), TextPart(<<" ">>),
      TextPart(<<"\f", "U+00A0">>), TextPart(<<"U+200B">>),
      [type |-> "text"], [type |-> "file"], [type |-> "reasoning", text |-> <<"z">>] }

ProbeParts == SeqsUpTo(PartKinds, MaxParts)

ProbeArgs == {[role |-> "user", parts |-> parts] : parts \in ProbeParts} \cup {[role |-> "user"]}

InitExtract ==
    /\ storage = << >>
    /\ clock = 1
    /\ pc = [t \in TurnIds |-> "idle"]
    /\ response = [t \in TurnIds |-> NoResponse]
    /\ turn = [t \in TurnIds |-> IdleTurn]
    /\ \E message \in ProbeArgs : probe = [fn |-> "none", arg |-> message, res |-> <<>>]

Apply_extractContent ==
    /\ probe.fn = "none"
    /\ probe' = [probe EXCEPT !.fn = "extractContent",
                              !.res = extractContent(probe.arg)]
    /\ UNCHANGED <<storage, clock, pc, response, turn>>

NextExtract == Apply_extractContent

SpecExtract == InitExtract /\ [][NextExtract]_vars

-----------------------------------------------------------------------------
(* Vocabulary of the properties *)

Stored == HistoryKey \in DOMAIN storage

StoredLog == storage[HistoryKey]

\* turn t invoked the model
Invoked(t) == pc[t] \in {"streaming", "done", "failed"} /\ response[t] = StreamResponse

\* this step is the completion callback of turn t
Finishes(t) == pc[t] = "streaming" /\ pc'[t] = "done"

\* this step is the get of turn t: it loads the log
Loads(t) == pc[t] = "idle" /\ pc'[t] = "loaded"

\* this step is turn t resuming after its get: it selects a message and takes
\* its branch
Resumes(t) == pc[t] = "loaded" /\ pc'[t] # "loaded"

\* this step is the acknowledgment of the clear request t, its delete done
Acknowledges(t) == pc[t] = "deleted" /\ pc'[t] = "done"

Min(a, b) == IF a <= b THEN a ELSE b

\* s is the suffix of length n of log
IsSuffix(s, log, n) ==
    /\ Len(s) = n
    /\ n <= Len(log)
    /\ \A i \in 1..n : s[i] = log[Len(log) - n + i]

\* the exchange turn t appends when it finishes in this step
NewUserEntry(t) ==
    [role     |-> "user",
     content  |-> extractContent(turn[t].latestMessage),
     metadata |-> [createdAt |-> turn[t].now]]

NewAssistantEntry(t) ==
    [role     |-> "assistant",
     content  |-> turn'[t].assistantMessage,
     metadata |-> [createdAt |-> clock]]

-----------------------------------------------------------------------------
(* C1: the persisted conversation log never holds more than 100 entries,   *)
(* whatever turns (user turns, no-ops, clears) have been processed.        *)
C1_StorageCap == Stored => Len(StoredLog) <= 100

\* a finished turn loaded a log at the cap, and the stored log is at the cap
C1_Witness ==
    \E t \in TurnIds :
        /\ pc[t] = "done"
        /\ Invoked(t)
        /\ Len(turn[t].storedHistory) = 100
        /\ Stored
        /\ Len(StoredLog) = 100

(* C2: a successful turn that loaded log H writes exactly the last         *)
(* min(|H|+2, 100) entries of H ++ <<user message, assistant reply>>, in   *)
(* order; the last two stored entries are the new exchange.                *)
C2_SuccessfulTurnWrite ==
    [][\A t \in TurnIds : Finishes(t) =>
          LET H    == turn[t].storedHistory
              full == H \o <<NewUserEntry(t), NewAssistantEntry(t)>>
              n    == Min(Len(H) + 2, 100)
          IN  /\ HistoryKey \in DOMAIN storage'
              /\ IsSuffix(storage'[HistoryKey], full, n)
              /\ storage'[HistoryKey][n - 1] = NewUserEntry(t)
              /\ storage'[HistoryKey][n] = NewAssistantEntry(t)]_vars

\* a finished turn that had to drop entries, its exchange last in the store
C2_Witness ==
    \E t \in TurnIds :
        /\ pc[t] = "done"
        /\ Invoked(t)
        /\ Len(turn[t].storedHistory) > 98
        /\ Stored
        /\ Len(StoredLog) = 100
        /\ StoredLog[99].role = "user"
        /\ StoredLog[99].content = extractContent(turn[t].latestMessage)
        /\ StoredLog[100].role = "assistant"
        /\ StoredLog[100].content = turn[t].assistantMessage

(* C3 as stated: a turn that loaded 120 entries leaves exactly 100, having *)
(* dropped the 20 oldest loaded entries and neither of the two new ones.   *)
C3_Original ==
    [][\A t \in TurnIds : (Finishes(t) /\ Len(turn[t].storedHistory) = 120) =>
          LET H       == turn[t].storedHistory
              written == storage'[HistoryKey]
              kept(e) == \E i \in 1..Len(written) : written[i] = e
          IN  /\ Len(written) = 100
              /\ \A i \in 1..20 : ~kept(H[i])
              /\ \A i \in 21..120 : kept(H[i])
              /\ kept(NewUserEntry(t))
              /\ kept(NewAssistantEntry(t))]_vars

(* C3 amended: a turn that loaded 120 entries leaves exactly 100: the 22   *)
(* oldest loaded entries are dropped, the other 98 are kept in order, and  *)
(* the two new entries follow them.                                        *)
C3_TrimScenario ==
    [][\A t \in TurnIds : (Finishes(t) /\ Len(turn[t].storedHistory) = 120) =>
          LET H       == turn[t].storedHistory
              written == storage'[HistoryKey]
              kept(e) == \E i \in 1..Len(written) : written[i] = e
          IN  /\ Len(written) = 100
              /\ \A i \in 1..22 : ~kept(H[i])
              /\ \A i \in 1..98 : written[i] = H[22 + i]
              /\ written[99] = NewUserEntry(t)
              /\ written[100] = NewAssistantEntry(t)]_vars

\* a turn that loaded 120 entries has finished; the store begins at entry 23
C3_Witness ==
    \E t \in TurnIds :
        /\ pc[t] = "done"
        /\ Invoked(t)
        /\ Len(turn[t].storedHistory) = 120
        /\ Stored
        /\ Len(StoredLog) = 100
        /\ StoredLog[1] = turn[t].storedHistory[23]
        /\ StoredLog[100].content = turn[t].assistantMessage

(* C4: getRecentMessages returns a log of at most 15 entries unchanged,    *)
(* and of a longer log exactly its last 15 entries, in order.              *)
C4_WindowForContext ==
    probe.fn = "getRecentMessages" =>
        /\ Len(probe.arg) <= 15 => probe.res = probe.arg
        /\ Len(probe.arg) > 15 => IsSuffix(probe.res, probe.arg, 15)

\* the function was applied to a log longer than the context cap
C4_Witness ==
    /\ probe.fn = "getRecentMessages"
    /\ Len(probe.arg) > 15
    /\ Len(probe.res) = 15

(* C5: trimStoredHistory returns a log of at most 100 entries unchanged,   *)
(* and of a longer log exactly its last 100 entries, in order; the storage *)
(* cap is 100 and is greater than the context cap, 15.                     *)
C5_TrimForStorage ==
    /\ MAX_STORED_MESSAGES = 100
    /\ MAX_MESSAGES_IN_CONTEXT = 15
    /\ MAX_STORED_MESSAGES > MAX_MESSAGES_IN_CONTEXT
    /\ probe.fn = "trimStoredHistory" =>
           /\ Len(probe.arg) <= 100 => probe.res = probe.arg
           /\ Len(probe.arg) > 100 => IsSuffix(probe.res, probe.arg, 100)

\* the function was applied to a log longer than the storage cap
C5_Witness ==
    /\ probe.fn = "trimStoredHistory"
    /\ Len(probe.arg) > 100
    /\ Len(probe.res) = 100

\* the turn that resumes in this step is a no-op answering with body
NoOp(t, body) ==
    /\ pc'[t] = "done"
    /\ response'[t] = TextResponse(body)
    /\ turn'[t].contextMessages = <<>>
    /\ storage' = storage

\* the message a batch selects: the one at the highest index with non-empty text
ValidAt(b) == {i \in 1..Len(b) : extractContent(b[i]) # <<>>}

Selected(b) ==
    IF ValidAt(b) = {} THEN Null
    ELSE b[CHOOSE i \in ValidAt(b) : \A j \in ValidAt(b) : j <= i]

IsClearCommand(m) == m # Null /\ m.role = "system" /\ extractContent(m) = ClearSentinel

NoValidBatches == {b \in InboundBatches : ValidAt(b) = {}}

NonUserBatches ==
    {b \in InboundBatches :
        Selected(b) # Null /\ Selected(b).role # "user" /\ ~IsClearCommand(Selected(b))}

(* C6: every turn that invokes the model sends the last min(|H|, 15)       *)
(* entries of the loaded log H, in order, followed by the new user message *)
(* as the last element: at most 16 messages; and no entry of the store is  *)
(* a context (UI) message.                                                 *)
C6_ContextWindow ==
    /\ \A t \in TurnIds : Invoked(t) =>
           LET H   == turn[t].storedHistory
               ctx == turn[t].contextMessages
               k   == Min(Len(H), 15)
           IN  /\ Len(ctx) = k + 1
               /\ Len(ctx) <= 16
               /\ \A i \in 1..k :
                      LET e == H[Len(H) - k + i]
                      IN  ctx[i] = [role     |-> e.role,
                                    parts    |-> <<[type |-> "text", text |-> e.content]>>,
                                    metadata |-> e.metadata]
               /\ ctx[k + 1].role = "user"
               /\ ctx[k + 1].parts = turn[t].latestMessage.parts
               /\ ctx[k + 1].metadata.createdAt = turn[t].now
    /\ Stored => \A i \in 1..Len(StoredLog) :
           DOMAIN StoredLog[i] = {"role", "content", "metadata"}

\* a turn that loaded more than 15 entries has invoked the model with 16 messages
C6_Witness ==
    \E t \in TurnIds :
        /\ Invoked(t)
        /\ Len(turn[t].storedHistory) > 15
        /\ Len(turn[t].contextMessages) = 16

(* C7: a turn whose selected message is system "(clear requested)" deletes *)
(* the log, then acknowledges with the number of entries it loaded, and    *)
(* neither invokes the model nor writes; the same text with role user      *)
(* deletes nothing.                                                        *)
C7_ClearCommand ==
    [][\A t \in TurnIds :
          /\ Resumes(t) =>
                 LET m == turn'[t].latestMessage
                 IN  /\ IsClearCommand(m) =>
                            /\ HistoryKey \notin DOMAIN storage'
                            /\ pc'[t] = "deleted"
                            /\ turn'[t].contextMessages = <<>>
                     /\ (m # Null /\ m.role = "user" /\ extractContent(m) = ClearSentinel) =>
                            /\ storage' = storage
                            /\ pc'[t] = "streaming"
          /\ Acknowledges(t) =>
                 /\ IsClearCommand(turn[t].latestMessage)
                 /\ response'[t] =
                        [kind |-> "json", status |-> 200, type |-> "clear",
                         success |-> TRUE,
                         messagesDeleted |-> Len(turn[t].storedHistory)]
                 /\ turn'[t].contextMessages = <<>>
                 /\ storage' = storage
          /\ response'[t].kind = "json" => IsClearCommand(turn'[t].latestMessage)]_vars

\* a clear of a log of 5 entries has been acknowledged with count 5
C7_Witness ==
    \E t \in TurnIds :
        /\ pc[t] = "done"
        /\ response[t].kind = "json"
        /\ response[t].messagesDeleted = 5
        /\ Len(turn[t].storedHistory) = 5
        /\ ~Stored

(* C8 (earlier revision): a turn whose selected user message has the text  *)
(* of a user message of the loaded log is a no-op: no put, no delete, no   *)
(* model call.                                                             *)
C8_DuplicateNoOp ==
    [][\A t \in TurnIds :
          /\ Loads(t) => storage' = storage
          /\ Resumes(t) =>
                 LET m == turn'[t].latestMessage
                     H == turn[t].storedHistory
                 IN  (/\ m # Null
                      /\ \E i \in 1..Len(H) :
                             H[i].role = "user" /\ H[i].content = extractContent(m))
                         => NoOp(t, "Duplicate message")]_vars

\* a turn was rejected as a duplicate of a stored user message
C8_Witness ==
    \E t \in TurnIds :
        /\ pc[t] = "done"
        /\ response[t] = TextResponse("Duplicate message")
        /\ \E i \in 1..Len(turn[t].storedHistory) :
               /\ turn[t].storedHistory[i].role = "user"
               /\ turn[t].storedHistory[i].content = extractContent(turn[t].latestMessage)
        /\ Stored
        /\ StoredLog = turn[t].storedHistory

(* C9: a turn over a batch in which no message has non-empty extracted     *)
(* text (the empty batch included) is a no-op: the log is unchanged and    *)
(* the model is not invoked.                                               *)
C9_EmptyInbound ==
    [][\A t \in TurnIds :
          /\ Loads(t) => storage' = storage
          /\ (Resumes(t) /\ \E b \in NoValidBatches : onChatMessage(t, b))
                 => NoOp(t, "No valid message")]_vars

\* a turn has answered that it found no valid message, the log as it loaded it
C9_Witness ==
    \E t \in TurnIds :
        /\ pc[t] = "done"
        /\ response[t] = TextResponse("No valid message")
        /\ turn[t].latestMessage = Null
        /\ Stored
        /\ StoredLog = turn[t].storedHistory

(* C10: a turn whose selected message is neither a user message nor the    *)
(* clear command is a no-op, also when the batch holds an older user       *)
(* message with non-empty text.                                            *)
C10_NonUserInbound ==
    [][\A t \in TurnIds :
          /\ Loads(t) => storage' = storage
          /\ Resumes(t) =>
                 /\ LET m == turn'[t].latestMessage
                    IN  (m # Null /\ m.role # "user" /\ ~IsClearCommand(m))
                            => NoOp(t, "Non-user message ignored")
                 /\ \/ NoOp(t, "Non-user message ignored")
                    \/ \A b \in NonUserBatches : ~onChatMessage(t, b)]_vars

\* a turn has ignored an assistant message and another a system message
C10_Witness ==
    /\ \E t \in TurnIds :
           /\ response[t] = TextResponse("Non-user message ignored")
           /\ turn[t].latestMessage.role = "assistant"
    /\ \E t \in TurnIds :
           /\ response[t] = TextResponse("Non-user message ignored")
           /\ turn[t].latestMessage.role = "system"
           /\ Stored
           /\ StoredLog = turn[t].storedHistory

(* Vocabulary of the pure selection and extraction properties *)

\* the user-only selection: the user message at the highest index with non-empty text
ValidUserAt(b) == {i \in ValidAt(b) : b[i].role = "user"}

SelectedUser(b) ==
    IF ValidUserAt(b) = {} THEN Null
    ELSE b[CHOOSE i \in ValidUserAt(b) : \A j \in ValidUserAt(b) : j <= i]

ExampleBatch == <<[role |-> "system", parts |-> <<TextPart(<<"h", "i">>)>>],
                  EmptyUserMessage, RealQuestion>>

\* the indices of the text-typed parts of a message that carry a text
TextPartsAt(m) ==
    IF "parts" \in DOMAIN m
    THEN {i \in 1..Len(m.parts) : m.parts[i].type = "text" /\ "text" \in DOMAIN m.parts[i]}
    ELSE {}

\* the texts of the text-typed parts up to part k, concatenated in part order
RECURSIVE RawTextUpTo(_, _)
RawTextUpTo(m, k) ==
    IF k = 0 THEN <<>>
    ELSE RawTextUpTo(m, k - 1) \o (IF k \in TextPartsAt(m) THEN m.parts[k].text ELSE <<>>)

RawText(m) == IF "parts" \in DOMAIN m THEN RawTextUpTo(m, Len(m.parts)) ELSE <<>>

\* r is raw without its leading and trailing white space
IsTrimOf(r, raw) ==
    /\ r # <<>> => r[1] \notin WhiteSpace /\ r[Len(r)] \notin WhiteSpace
    /\ \E i \in 1..(Len(raw) + 1) :
           /\ i + Len(r) - 1 <= Len(raw)
           /\ r = SubSeq(raw, i, i + Len(r) - 1)
           /\ \A j \in 1..Len(raw) : (j < i \/ j >= i + Len(r)) => raw[j] \in WhiteSpace

(* C11: getLatestMessage returns the message at the highest index whose    *)
(* extracted text is non-empty, getLatestUserMessage (earlier revision)    *)
(* the user message at the highest index whose extracted text is           *)
(* non-empty, and each returns null when the batch holds no such message;  *)
(* over <<system "hi", user "", user "real question">> both return the     *)
(* "real question" message.                                                *)
C11_SelectLatest ==
    /\ probe.fn = "getLatestMessage" =>
           /\ probe.res = Selected(probe.arg)
           /\ ValidAt(probe.arg) = {} <=> probe.res = Null
    /\ probe.fn = "getLatestUserMessage" =>
           /\ probe.res = SelectedUser(probe.arg)
           /\ ValidUserAt(probe.arg) = {} <=> probe.res = Null
    /\ (probe.fn # "none" /\ probe.arg = ExampleBatch) => probe.res = RealQuestion

\* getLatestMessage was applied to the example batch and returned its last message
C11_Witness ==
    /\ probe.fn = "getLatestMessage"
    /\ probe.arg = ExampleBatch
    /\ probe.res = probe.arg[3]
    /\ probe.res.parts[1].text = <<"r", "e", "a", "l", " ", "q", "u", "e", "s", "t", "i", "o", "n">>

(* C12 as stated: extractContent returns the empty text for a message with *)
(* no text-typed part or no parts, and otherwise the concatenation of the  *)
(* texts of its text-typed parts, in part order.                           *)
C12_Original ==
    probe.fn = "extractContent" =>
        /\ TextPartsAt(probe.arg) = {} => probe.res = <<>>
        /\ probe.res = RawText(probe.arg)

(* C12 amended: extractContent returns the empty text for a message with   *)
(* no text-typed part or no parts, and otherwise the concatenation of the  *)
(* texts of its text-typed parts, in part order, without its leading and   *)
(* trailing white space; parts of other types contribute nothing.          *)
C12_ExtractText ==
    probe.fn = "extractContent" =>
        /\ TextPartsAt(probe.arg) = {} => probe.res = <<>>
        /\ IsTrimOf(probe.res, RawText(probe.arg))

\* text parts around a reasoning part: the texts are joined, the blank at the ends removed
C12_Witness ==
    /\ probe.fn = "extractContent"
    /\ "parts" \in DOMAIN probe.arg
    /\ probe.arg.parts = <<TextPart(<<" ", "b">>), [type |-> "reasoning", text |-> <<"z">>],
                           TextPart(<<"a">>)>>
    /\ probe.res = <<"b", "a">>

(* Vocabulary of the properties of interleaved turns *)

\* e is an entry of log
InLog(e, log) == \E i \in 1..Len(log) : log[i] = e

\* turn t has written its exchange
Completed(t) == pc[t] = "done" /\ Invoked(t)

\* the user entry turn t has written, recognised by its timestamp
WroteUserEntry(t) ==
    [role     |-> "user",
     content  |-> extractContent(turn[t].latestMessage),
     metadata |-> [createdAt |-> turn[t].now]]

(* C13: every entry of the persisted log, user or assistant, has a content *)
(* that is non-empty after trimming; an assistant reply whose text is      *)
(* empty is not stored.                                                    *)
C13_NonEmptyContent ==
    Stored => \A i \in 1..Len(StoredLog) : Trim(StoredLog[i].content) # <<>>

(* C14: a completion writes the turn's exchange as the last two entries of *)
(* the log; and when no other turn has written since the turn loaded the   *)
(* log (serialized turns), the write is the log as it stands followed by   *)
(* the exchange, less what the cap removes: no update is lost.  The lost   *)
(* update itself, two turns over one snapshot, is the state C14_Witness.   *)
C14_SerializedKeepsExchange ==
    [][\A t \in TurnIds : Finishes(t) =>
          LET written == storage'[HistoryKey]
              full    == LoadHistory \o <<NewUserEntry(t), NewAssistantEntry(t)>>
          IN  /\ Len(written) >= 2
              /\ written[Len(written) - 1] = NewUserEntry(t)
              /\ written[Len(written)] = NewAssistantEntry(t)
              /\ LoadHistory = turn[t].storedHistory =>
                     IsSuffix(written, full, Min(Len(full), 100))]_vars

\* two turns loaded the same log, both completed, and the store holds the
\* exchange of one of them only
C14_Witness ==
    \E t1, t2 \in TurnIds :
        /\ t1 # t2
        /\ Completed(t1)
        /\ Completed(t2)
        /\ turn[t1].storedHistory = turn[t2].storedHistory
        /\ Stored
        /\ InLog(WroteUserEntry(t2), StoredLog)
        /\ ~InLog(WroteUserEntry(t1), StoredLog)
        /\ Len(StoredLog) = Len(turn[t1].storedHistory) + 2

(* C15: a user turn writes the store only in its completion callback: the  *)
(* step that starts it and the failure of its model invocation leave the   *)
(* store as it is, every put is a completion, and while a turn is          *)
(* streaming or has failed, the other turns being no-ops or not started,   *)
(* the log is the log it loaded.                                           *)
C15_WriteOrdering ==
    [][\A t \in TurnIds :
          /\ Loads(t) => storage' = storage
          /\ (Resumes(t) /\ pc'[t] = "streaming") => storage' = storage
          /\ (pc[t] = "streaming" /\ pc'[t] = "failed") => storage' = storage
          /\ (storage' # storage /\ HistoryKey \in DOMAIN storage') =>
                 \E s \in TurnIds : Finishes(s)
          /\ (/\ pc'[t] \in {"streaming", "failed"}
              /\ \A s \in TurnIds \ {t} :
                     pc'[s] \in {"idle", "loaded"} \/ response'[s].kind = "text")
                 => /\ storage' = storage
                    /\ turn'[t].storedHistory =
                           (IF HistoryKey \in DOMAIN storage' THEN storage'[HistoryKey] ELSE <<>>)]_vars

\* a model invocation has failed and the log is the log the turn loaded,
\* without the user message of the turn
C15_Witness ==
    \E t \in TurnIds :
        /\ pc[t] = "failed"
        /\ Stored
        /\ StoredLog = turn[t].storedHistory
        /\ ~InLog(WroteUserEntry(t), StoredLog)

(* C16: in every turn that reaches the model the selected message has a    *)
(* non-empty extracted text, so toStoredMessage of the timestamped message *)
(* is not null: it has role user, the extracted text as content and the    *)
(* turn's timestamp; and every completion puts the updated log, once.      *)
C16_ConversionNeverFails ==
    [][\A t \in TurnIds :
          /\ (Resumes(t) /\ pc'[t] = "streaming") =>
                 LET m      == turn'[t].userMessageWithTimestamp
                     stored == toStoredMessage(m, turn'[t].now, clock')
                 IN  /\ extractContent(turn'[t].latestMessage) # <<>>
                     /\ stored # Null
                     /\ stored.role = "user"
                     /\ stored.content = extractContent(turn'[t].latestMessage)
                     /\ stored.metadata.createdAt = turn'[t].now
          /\ Finishes(t) =>
                 /\ HistoryKey \in DOMAIN storage'
                 /\ storage'[HistoryKey] = turn'[t].trimmedHistory
                 /\ Len(storage'[HistoryKey]) >= 2
                 /\ storage'[HistoryKey][Len(storage'[HistoryKey]) - 1] = NewUserEntry(t)
                 /\ clock' = clock + 1
          /\ (pc[t] = "done" /\ storage' # storage) =>
                 \E s \in TurnIds \ {t} : Resumes(s) \/ Finishes(s)]_vars

\* a turn over a message with a file part and a blank completed: the stored
\* user entry carries the trimmed text
C16_Witness ==
    \E t \in TurnIds :
        /\ Completed(t)
        /\ turn[t].latestMessage.parts[1].type = "file"
        /\ Stored
        /\ StoredLog = turn[t].trimmedHistory
        /\ StoredLog[Len(StoredLog) - 1].role = "user"
        /\ StoredLog[Len(StoredLog) - 1].content = <<"X">>

(* Vocabulary of the properties of serialized turns *)

\* the log a store holds, empty when it holds none
LogOf(st) == IF HistoryKey \in DOMAIN st THEN st[HistoryKey] ELSE <<>>

\* the positions of the user entries of log whose content is text
UserEntriesAt(log, text) ==
    {i \in 1..Len(log) : log[i].role = "user" /\ log[i].content = text}

UniqueUserTexts(log) ==
    \A i, j \in 1..Len(log) :
        (i # j /\ log[i].role = "user" /\ log[j].role = "user")
            => log[i].content # log[j].content

(* C17 (earlier revision, serialized turns over a log grown from empty):   *)
(* the log never holds two user entries with the same content; a turn      *)
(* whose user text is the content of a user entry of the log is rejected   *)
(* as a duplicate, and a turn whose user text is in no user entry of the   *)
(* log, because it never was or because its entry was trimmed, is          *)
(* accepted.                                                               *)
C17_DuplicateUniqueness ==
    [][/\ UniqueUserTexts(LogOf(storage))
       /\ UniqueUserTexts(LogOf(storage'))
       /\ \A t \in TurnIds : (Resumes(t) /\ turn'[t].latestMessage # Null) =>
              LET X == extractContent(turn'[t].latestMessage)
              IN  /\ turn[t].storedHistory = LogOf(storage)
                  /\ UserEntriesAt(LogOf(storage), X) # {} => NoOp(t, "Duplicate message")
                  /\ UserEntriesAt(LogOf(storage), X) = {} =>
                         /\ pc'[t] = "streaming"
                         /\ response'[t] = StreamResponse]_vars

\* a text answered in a log that an earlier turn loaded, trimmed out since, was
\* accepted again and is stored once
C17_Witness ==
    \E t1, t2 \in TurnIds :
        /\ t1 < t2
        /\ Completed(t1)
        /\ Completed(t2)
        /\ LET X == extractContent(turn[t2].latestMessage)
           IN  /\ UserEntriesAt(turn[t1].storedHistory, X) # {}
               /\ UserEntriesAt(turn[t2].storedHistory, X) = {}
               /\ Stored
               /\ Cardinality(UserEntriesAt(StoredLog, X)) = 1

\* turn c was a clear request, and it has completed
Cleared(c) == pc[c] = "done" /\ response[c].kind = "json"

(* C18: once a clear request has completed, none of the entries it deleted *)
(* is in the persisted log again; in particular the completion of a turn   *)
(* that loaded the log before the clear does not write them back.          *)
C18_ClearedStaysCleared ==
    \A c \in TurnIds : (Cleared(c) /\ Stored) =>
        \A i \in 1..Len(turn[c].storedHistory) :
            ~InLog(turn[c].storedHistory[i], StoredLog)

\* the log alternates user, assistant, ... from a user entry and has even length
PairStructured(log) ==
    /\ Len(log) % 2 = 0
    /\ \A i \in 1..Len(log) :
           /\ i % 2 = 1 => log[i].role = "user"
           /\ i % 2 = 0 => log[i].role = "assistant"
           /\ log[i].role # "system"

(* C19 (serialized turns over a log grown from empty): the persisted log   *)
(* has even length, alternates user, assistant, ... from a user entry and  *)
(* holds no system entry; a completion that trims drops whole exchanges:   *)
(* an even number of the oldest entries.                                   *)
C19_ExchangePairs ==
    [][/\ PairStructured(LogOf(storage))
       /\ PairStructured(LogOf(storage'))
       /\ \A t \in TurnIds : Finishes(t) =>
              LET dropped == Len(turn[t].storedHistory) + 2 - Len(LogOf(storage'))
              IN  /\ dropped >= 0
                  /\ dropped % 2 = 0
                  /\ \A i \in 1..(Len(LogOf(storage')) - 2) :
                         LogOf(storage')[i] = turn[t].storedHistory[dropped + i]]_vars

\* a turn that loaded a full log has completed: the oldest exchange was dropped
\* and the log begins with the user entry of the second
C19_Witness ==
    \E t \in TurnIds :
        /\ Completed(t)
        /\ Len(turn[t].storedHistory) = 100
        /\ Stored
        /\ StoredLog = turn[t].trimmedHistory
        /\ Len(StoredLog) = 100
        /\ StoredLog[1] = turn[t].storedHistory[3]
        /\ StoredLog[1].role = "user"

(* Vocabulary of the comparison of two turns *)

\* two turns that have answered, given the same log snapshot and the same
\* selected message
SameRequest(t1, t2) ==
    /\ t1 # t2
    /\ pc[t1] \in {"streaming", "done", "failed"}
    /\ pc[t2] \in {"streaming", "done", "failed"}
    /\ turn[t1].storedHistory = turn[t2].storedHistory
    /\ turn[t1].latestMessage = turn[t2].latestMessage

\* and, both having returned and completed, the same reply of the model
SameInputs(t1, t2) ==
    /\ SameRequest(t1, t2)
    /\ pc[t1] = "done"
    /\ pc[t2] = "done"
    /\ turn[t1].assistantMessage = turn[t2].assistantMessage

\* a message or entry without the time it was created at
Untimed(m) ==
    IF "metadata" \in DOMAIN m
    THEN [m EXCEPT !.metadata = [g \in DOMAIN m.metadata \ {"createdAt"} |-> m.metadata[g]]]
    ELSE m

\* a and b are the same but for the creation times of their last n elements
SameButNewTimes(a, b, n) ==
    /\ Len(a) = Len(b)
    /\ \A i \in 1..Len(a) :
           IF i > Len(a) - n THEN Untimed(a[i]) = Untimed(b[i]) ELSE a[i] = b[i]

(* C20: two turns given the same log snapshot and the same selected        *)
(* message return the same response and send the same context window, and  *)
(* with the same reply of the model they write the same log, but for the   *)
(* timestamps of the new entries, whatever turns went before either.       *)
C20_TurnIndependence ==
    \A t1, t2 \in TurnIds :
        /\ SameRequest(t1, t2) =>
               /\ response[t1] = response[t2]
               /\ SameButNewTimes(turn[t1].contextMessages, turn[t2].contextMessages, 1)
        /\ SameInputs(t1, t2) =>
               SameButNewTimes(turn[t1].trimmedHistory, turn[t2].trimmedHistory, 2)

\* two turns over the same log of more than 15 entries, the same message and the
\* same reply have completed at different times
C20_Witness ==
    \E t1, t2 \in TurnIds :
        /\ t1 < t2
        /\ SameInputs(t1, t2)
        /\ Completed(t1)
        /\ Completed(t2)
        /\ Len(turn[t1].storedHistory) > 15
        /\ turn[t1].now # turn[t2].now
        /\ Len(turn[t2].contextMessages) = 16
        /\ turn[t1].trimmedHistory # turn[t2].trimmedHistory

=============================================================================
